---------------------------- MODULE Spec2Model ----------------------------
(***************************************************************************)
(* NinjaTime (src/NinjaTime.py): reads a .ninja_log, splits its records    *)
(* into builds, gives every target of a build a thread by a line sweep,    *)
(* and prints one trace event per target.                                  *)
(*                                                                         *)
(* A line of the log is a sequence of one-character strings, so that the   *)
(* header pattern, rstrip, split and int are computed character by         *)
(* character as the Python code computes them.                             *)
(***************************************************************************)
EXTENDS Integers, Sequences, FiniteSets, TLC

(***************************************************************************)
(* Bounds of the model.                                                    *)
(***************************************************************************)
\* lines of the log after its header lines
MaxBody == 3
\* readline() calls at end of file that the model follows in the version loop
MaxEofReads == 2
\* timestamps 0..MaxTime of the targets handed to assign_threads directly
MaxTime == 2
\* targets of a build handed to assign_threads directly
MaxTargets == 3

(***************************************************************************)
(* Python values.                                                          *)
(***************************************************************************)
\* Python's None, for Target.thread and for check_version's result: every
\* thread index is >= 0 and every version is a digit 0..9.
None == -1

TAB == "\t"
NL == "\n"
SP == " "

Digit == {"0", "1", "2", "3", "4", "5", "6", "7", "8", "9"}

DigitVal(c) ==
    CASE c = "0" -> 0 [] c = "1" -> 1 [] c = "2" -> 2 [] c = "3" -> 3
      [] c = "4" -> 4 [] c = "5" -> 5 [] c = "6" -> 6 [] c = "7" -> 7
      [] c = "8" -> 8 [] c = "9" -> 9

\* the characters str.rstrip() and int() strip (of the model's alphabet)
Whitespace == {SP, TAB, NL}

\* the value of a sequence of decimal digits
RECURSIVE DecValue(_)
DecValue(s) ==
    IF s = <<>> THEN 0
    ELSE 10 * DecValue(SubSeq(s, 1, Len(s) - 1)) + DigitVal(s[Len(s)])

RECURSIVE rstrip(_)
rstrip(s) ==
    IF s # <<>> /\ s[Len(s)] \in Whitespace
    THEN rstrip(SubSeq(s, 1, Len(s) - 1))
    ELSE s

RECURSIVE lstrip(_)
lstrip(s) ==
    IF s # <<>> /\ s[1] \in Whitespace THEN lstrip(Tail(s)) ELSE s

\* int(s) of a str: surrounding whitespace is dropped, one sign is allowed,
\* then one or more digits; anything else raises ValueError.
int(s) ==
    LET t == rstrip(lstrip(s))
        signed == t # <<>> /\ t[1] \in {"-", "+"}
        d == IF signed THEN Tail(t) ELSE t
        ok == d # <<>> /\ \A i \in 1..Len(d) : d[i] \in Digit
    IN  IF ~ok THEN [raised |-> TRUE, value |-> 0]
        ELSE [raised |-> FALSE,
              value |-> IF signed /\ t[1] = "-" THEN 0 - DecValue(d)
                        ELSE DecValue(d)]

\* s.split('\t'): the fields between the tabs, empty ones included
RECURSIVE split(_)
split(s) ==
    IF \A i \in 1..Len(s) : s[i] # TAB THEN <<s>>
    ELSE LET i == CHOOSE j \in 1..Len(s) :
                      s[j] = TAB /\ \A k \in 1..(j - 1) : s[k] # TAB
         IN  <<SubSeq(s, 1, i - 1)>> \o split(SubSeq(s, i + 1, Len(s)))

(***************************************************************************)
(* ninja_log_expr = re.compile("#[\t ]+ninja[\t ]+log[\t ]+v(\d)")         *)
(***************************************************************************)
\* the index after the longest run of [\t ] that starts at i
RECURSIVE SkipBlanks(_, _)
SkipBlanks(s, i) ==
    IF i <= Len(s) /\ s[i] \in {TAB, SP} THEN SkipBlanks(s, i + 1) ELSE i

\* the literal w stands in s at index i
Literal(s, i, w) ==
    i + Len(w) - 1 <= Len(s) /\ SubSeq(s, i, i + Len(w) - 1) = w

\* ninja_log_expr.match(line): the one character captured by (\d), <<>> when
\* the line does not match. match() anchors the start only, so whatever
\* follows the first digit is not looked at.
ninja_log_expr(line) ==
    LET a == SkipBlanks(line, 2)
        b == SkipBlanks(line, a + 5)
        c == SkipBlanks(line, b + 3)
    IN  IF /\ Literal(line, 1, <<"#">>)
           /\ a > 2
           /\ Literal(line, a, <<"n", "i", "n", "j", "a">>)
           /\ b > a + 5
           /\ Literal(line, b, <<"l", "o", "g">>)
           /\ c > b + 3
           /\ Literal(line, c, <<"v">>)
           /\ c + 1 <= Len(line)
           /\ line[c + 1] \in Digit
        THEN <<line[c + 1]>>
        ELSE <<>>

allowed_versions == {5}

Abs(x) == IF x < 0 THEN 0 - x ELSE x

\* check_version(line): value is the version or None; raised with
\* VersionError(good, bad) when the version is not an allowed one.
check_version(line) ==
    LET match == ninja_log_expr(line)
        version == DecValue(match)
        closest == CHOOSE x \in allowed_versions :
                       \A y \in allowed_versions :
                           Abs(x - version) <= Abs(y - version)
        nothing == [raised |-> FALSE, value |-> None, good |-> None, bad |-> None]
    IN  IF line # <<>> /\ line[1] # "#" THEN nothing
        ELSE IF match = <<>> THEN nothing
        ELSE IF version \notin allowed_versions
             THEN [raised |-> TRUE, value |-> None, good |-> closest, bad |-> version]
        ELSE [raised |-> FALSE, value |-> version, good |-> None, bad |-> None]

(***************************************************************************)
(* class Target, class Build                                               *)
(***************************************************************************)
\* Target(start, end, name, target_hash): int() of the two timestamps; a
\* ValueError of int() leaves the constructor.
Target(start, end, name, target_hash) ==
    LET s == int(start)
        e == int(end)
    IN  IF s.raised \/ e.raised THEN [raised |-> TRUE, value |-> None]
        ELSE [raised |-> FALSE,
              value |-> [start |-> s.value, end |-> e.value, name |-> name,
                         hash |-> target_hash, thread |-> None]]

\* Target.period
period(target) == target.end - target.start

\* Build.__contains__ comparing targets as Target.__eq__ does: name and hash
Build_contains_eq(build, target) ==
    \E i \in 1..Len(build) :
        build[i].name = target.name /\ build[i].hash = target.hash

\* Build.__contains__: a target of the build has the name of the new one
Build_contains(build, target) ==
    \E i \in 1..Len(build) : build[i].name = target.name

\* need_new_build without "new_target in current_build"
need_new_build_by_end(current_build, new_target) ==
    IF current_build = <<>> THEN FALSE
    ELSE new_target.end < current_build[Len(current_build)].end

\* need_new_build without the comparison of the end times
need_new_build_by_name(current_build, new_target) ==
    IF current_build = <<>> THEN FALSE
    ELSE \E i \in 1..Len(current_build) : current_build[i].name = new_target.name

\* need_new_build returning True for an empty build
need_new_build_of_empty(current_build, new_target) ==
    IF current_build = <<>> THEN TRUE
    ELSE IF \E i \in 1..Len(current_build) : current_build[i].name = new_target.name
    THEN TRUE
    ELSE new_target.end < current_build[Len(current_build)].end

need_new_build(current_build, new_target) ==
    IF current_build = <<>> THEN FALSE
    ELSE IF Build_contains(current_build, new_target) THEN TRUE
    ELSE new_target.end < current_build[Len(current_build)].end

(***************************************************************************)
(* assign_threads                                                          *)
(***************************************************************************)
\* sorted() by start with equal starts in reverse arrival order
sorted_by_start_reversed_ties(build) ==
    LET n == Len(build)
        before(i, j) == \/ build[i].start < build[j].start
                        \/ build[i].start = build[j].start /\ i > j
        rank(j) == Cardinality({i \in 1..n : before(i, j)}) + 1
    IN  [r \in 1..n |-> CHOOSE j \in 1..n : rank(j) = r]

\* sorted(build.targets, key=lambda t: t.start), as the indices of the
\* targets: ascending start, and the sort is stable
sorted_by_start(build) ==
    LET n == Len(build)
        before(i, j) == \/ build[i].start < build[j].start
                        \/ build[i].start = build[j].start /\ i < j
        rank(j) == Cardinality({i \in 1..n : before(i, j)}) + 1
    IN  [r \in 1..n |-> CHOOSE j \in 1..n : rank(j) = r]

\* assign_one with "threads[thread] = target.end" left out
assign_one_end_kept(st, i) ==
    LET target == st.targets[i]
        free == {t \in 1..Len(st.threads) : st.threads[t] <= target.start}
        first == CHOOSE t \in free : \A u \in free : t <= u
    IN  IF free = {}
        THEN [targets |-> [st.targets EXCEPT ![i].thread = Len(st.threads)],
              threads |-> Append(st.threads, target.end)]
        ELSE [targets |-> [st.targets EXCEPT ![i].thread = first - 1],
              threads |-> st.threads]

\* assign_one with "end_time < target.start" for "end_time <= target.start"
assign_one_strict(st, i) ==
    LET target == st.targets[i]
        free == {t \in 1..Len(st.threads) : st.threads[t] < target.start}
        first == CHOOSE t \in free : \A u \in free : t <= u
    IN  IF free = {}
        THEN [targets |-> [st.targets EXCEPT ![i].thread = Len(st.threads)],
              threads |-> Append(st.threads, target.end)]
        ELSE [targets |-> [st.targets EXCEPT ![i].thread = first - 1],
              threads |-> [st.threads EXCEPT ![first] = target.end]]

\* assign_one without lines 216-218: no thread is added
assign_one_no_new_thread(st, i) ==
    LET target == st.targets[i]
        free == {t \in 1..Len(st.threads) : st.threads[t] <= target.start}
        first == CHOOSE t \in free : \A u \in free : t <= u
    IN  IF free = {} THEN st
        ELSE [targets |-> [st.targets EXCEPT ![i].thread = first - 1],
              threads |-> [st.threads EXCEPT ![first] = target.end]]

\* assign_one with "target.thread = len(threads) + 1"
assign_one_thread_after(st, i) ==
    LET target == st.targets[i]
        free == {t \in 1..Len(st.threads) : st.threads[t] <= target.start}
        first == CHOOSE t \in free : \A u \in free : t <= u
        swept == IF free = {} THEN st
                 ELSE [targets |-> [st.targets EXCEPT ![i].thread = first - 1],
                       threads |-> [st.threads EXCEPT ![first] = target.end]]
    IN  IF swept.targets[i].thread = None
        THEN [targets |-> [swept.targets EXCEPT ![i].thread = Len(swept.threads) + 1],
              threads |-> Append(swept.threads, target.end)]
        ELSE swept

\* assign_one without the break of line 213: the target goes through every
\* thread that is free for it and stays on the last one
assign_one_no_break(st, i) ==
    LET target == st.targets[i]
        free == {t \in 1..Len(st.threads) : st.threads[t] <= target.start}
        last == CHOOSE t \in free : \A u \in free : u <= t
        swept == IF free = {} THEN st
                 ELSE [targets |-> [st.targets EXCEPT ![i].thread = last - 1],
                       threads |-> [t \in 1..Len(st.threads) |->
                                       IF t \in free THEN target.end ELSE st.threads[t]]]
    IN  IF swept.targets[i].thread = None
        THEN [targets |-> [swept.targets EXCEPT ![i].thread = Len(swept.threads)],
              threads |-> Append(swept.threads, target.end)]
        ELSE swept

\* One pass of the body of "for target in targets" over target i of the
\* build: st.targets are the build's targets, st.threads the end time of
\* the job of each thread. Python's thread t is index t + 1 here.
assign_one(st, i) ==
    LET target == st.targets[i]
        free == {t \in 1..Len(st.threads) : st.threads[t] <= target.start}
        first == CHOOSE t \in free : \A u \in free : t <= u
        swept == IF free = {} THEN st
                 ELSE [targets |-> [st.targets EXCEPT ![i].thread = first - 1],
                       threads |-> [st.threads EXCEPT ![first] = target.end]]
    IN  IF swept.targets[i].thread = None
        THEN [targets |-> [swept.targets EXCEPT ![i].thread = Len(swept.threads)],
              threads |-> Append(swept.threads, target.end)]
        ELSE swept

RECURSIVE sweep(_, _, _)
sweep(st, order, k) ==
    IF k > Len(order) THEN st ELSE sweep(assign_one(st, order[k]), order, k + 1)

\* assign_threads(build): the build with the thread of every target set
assign_threads(build) ==
    sweep([targets |-> build, threads |-> <<0>>], sorted_by_start(build), 1).targets

(***************************************************************************)
(* target_to_dict                                                          *)
(***************************************************************************)
\* target_to_dict with the period left in milliseconds
target_to_dict_ms(target, p) ==
    [name |-> target.name, cat |-> "targets", ph |-> "X",
     ts |-> target.start * 1000, dur |-> period(target),
     pid |-> p, tid |-> target.thread]

target_to_dict(target, p) ==
    [name |-> target.name, cat |-> "targets", ph |-> "X",
     ts |-> target.start * 1000, dur |-> period(target) * 1000,
     pid |-> p, tid |-> target.thread]

(***************************************************************************)
(* The log files read.                                                     *)
(***************************************************************************)
DigitChar(d) ==
    CASE d = 0 -> "0" [] d = 1 -> "1" [] d = 2 -> "2" [] d = 3 -> "3"
      [] d = 4 -> "4" [] d = 5 -> "5" [] d = 6 -> "6" [] d = 7 -> "7"
      [] d = 8 -> "8" [] d = 9 -> "9"

\* a natural number as ninja writes it
RECURSIVE Decimal(_)
Decimal(n) ==
    IF n < 10 THEN <<DigitChar(n)>>
    ELSE Append(Decimal(n \div 10), DigitChar(n % 10))

\* "# ninja log v<version>"
HeaderLine(version) ==
    <<"#", SP, "n", "i", "n", "j", "a", SP, "l", "o", "g", SP, "v">>
        \o Decimal(version) \o <<NL>>

\* "start <TAB> end <TAB> re-stat <TAB> Target <TAB> hash"
LogLine(start, end, name, target_hash) ==
    Decimal(start) \o <<TAB>> \o Decimal(end) \o <<TAB, "0", TAB>>
        \o name \o <<TAB>> \o target_hash \o <<NL>>

CommentLine == <<"#", "c", NL>>
BlankLine == <<NL>>

\* What stands in front of the body: nothing, the header of version 5, of
\* version 4, of version 50, and the header of version 5 after a comment
\* and a blank line.
Preludes ==
    { <<>>,
      <<HeaderLine(5)>>,
      <<HeaderLine(4)>>,
      <<HeaderLine(50)>>,
      <<CommentLine, BlankLine, HeaderLine(5)>> }

\* "-2 <TAB> 8 <TAB> 0 <TAB> d <TAB> e": a record that starts at -2
NegativeLine == <<"-">> \o LogLine(2, 8, <<"d">>, <<"e">>)

\* The lines of a body: a comment, a blank line, and five records. a/e
\* runs 0..10, b/e runs 2..8 inside it, c/e runs 20..25 after both,
\* b/f has the name of b/e, another hash, and ends as it starts, at 10,
\* and d/e starts at -2.
BodyLines ==
    { CommentLine,
      BlankLine,
      LogLine(0, 10, <<"a">>, <<"e">>),
      LogLine(2, 8, <<"b">>, <<"e">>),
      LogLine(20, 25, <<"c">>, <<"e">>),
      LogLine(10, 10, <<"b">>, <<"f">>),
      NegativeLine }

SeqsUpTo(S, n) == UNION {[1..m -> S] : m \in 0..n}

Files == {p \o b : p \in Preludes, b \in SeqsUpTo(BodyLines, MaxBody)}

\* The builds handed to assign_threads directly: any targets with
\* timestamps in 0..MaxTime, end before start included. assign_threads
\* reads start, end and thread only, so one name and hash serve for all.
SweepTargets ==
    {[start |-> s, end |-> e, name |-> <<"a">>, hash |-> <<"e">>, thread |-> None] :
        s \in 0..MaxTime, e \in 0..MaxTime}

SweepBuilds == SeqsUpTo(SweepTargets, MaxTargets)

(***************************************************************************)
(* The state.                                                              *)
(***************************************************************************)
VARIABLES
    file,       \* the lines of the log file
    pc,         \* where the program is
    pass,       \* main() reads the log twice: 1 at line 301, 2 at line 306
    pos,        \* the lines of the file read since it was opened
    version,    \* read_log's version
    eofReads,   \* the readline() calls of the version loop that returned ''
    builds,     \* read_log's builds, each the list of its targets
    pid,        \* main(): the builds of this pass given their threads
    targets,    \* main(): the dictionaries of the list comprehension
    stdout,     \* the lists printed
    stderr,     \* the VersionErrors printed, as <<good, bad>>
    threads,    \* assign_threads: the end time of each thread
    order,      \* assign_threads: the sorted targets, as indices
    k           \* assign_threads: the next place of order to sweep

vars == <<file, pc, pass, pos, version, eofReads, builds, pid, targets,
          stdout, stderr, threads, order, k>>

sweepVars == <<threads, order, k>>

Init ==
    /\ file \in Files
    /\ pc = "version"
    /\ pass = 1
    /\ pos = 0
    /\ version = None
    /\ eofReads = 0
    /\ builds = <<>>
    /\ pid = 0
    /\ targets = <<>>
    /\ stdout = <<>>
    /\ stderr = <<>>
    /\ threads = <<>>
    /\ order = <<>>
    /\ k = 0

(***************************************************************************)
(* read_log                                                                *)
(***************************************************************************)
\* One pass of "while version is None" with a line left in the file.
ReadVersion ==
    /\ pc = "version"
    /\ pos < Len(file)
    /\ LET r == check_version(file[pos + 1])
       IN  /\ pos' = pos + 1
           /\ IF r.raised
              THEN /\ stderr' = Append(stderr, <<r.good, r.bad>>)
                   /\ pc' = "exit"
                   /\ UNCHANGED <<version, builds>>
              ELSE /\ version' = r.value
                   /\ IF r.value = None
                      THEN UNCHANGED <<pc, builds>>
                      ELSE pc' = "body" /\ builds' = <<<<>>>>
                   /\ UNCHANGED stderr
    /\ UNCHANGED <<file, pass, eofReads, pid, targets, stdout, sweepVars>>

\* One pass of "while version is None" at the end of the file: readline()
\* returns '', check_version('') returns None, and the loop goes on.
ReadVersionAtEof ==
    /\ pc = "version"
    /\ pos = Len(file)
    /\ eofReads < MaxEofReads
    /\ LET r == check_version(<<>>)
       IN  /\ ~r.raised
           /\ version' = r.value
           /\ pc' = IF r.value = None THEN "version" ELSE "body"
    /\ eofReads' = eofReads + 1
    /\ UNCHANGED <<file, pass, pos, builds, pid, targets, stdout, stderr, sweepVars>>

\* the builds when the target that starts a new build is not added to it
add_to_builds_unless_new(bs, new_target) ==
    LET current_build == bs[Len(bs)]
    IN  IF need_new_build(current_build, new_target)
        THEN Append(bs, <<>>)
        ELSE [bs EXCEPT ![Len(bs)] = Append(current_build, new_target)]

\* the builds after new_target has been read
add_to_builds(bs, new_target) ==
    LET current_build == bs[Len(bs)]
    IN  IF need_new_build(current_build, new_target)
        THEN Append(bs, <<new_target>>)
        ELSE [bs EXCEPT ![Len(bs)] = Append(current_build, new_target)]

\* "line == '' or line[0] == '#'"
skipped(line) == line = <<>> \/ line[1] = "#"

\* "start, end, _, tname, thash = line.rstrip().split('\t')" and
\* "Target(start, end, tname, thash)": a ValueError is raised when the
\* fields are not five, or by int()
parse_line(line) ==
    LET fields == split(rstrip(line))
    IN  IF Len(fields) # 5 THEN [raised |-> TRUE, value |-> None]
        ELSE Target(fields[1], fields[2], fields[4], fields[5])

\* One pass of "for line in f".
ReadBody ==
    /\ pc = "body"
    /\ pos < Len(file)
    /\ pos' = pos + 1
    /\ LET line == file[pos + 1]
           new_target == parse_line(line)
       IN  IF skipped(line) THEN UNCHANGED <<pc, builds>>
           ELSE IF new_target.raised
           THEN pc' = "ValueError" /\ UNCHANGED builds
           ELSE /\ builds' = add_to_builds(builds, new_target.value)
                /\ UNCHANGED pc
    /\ UNCHANGED <<file, pass, version, eofReads, pid, targets, stdout, stderr, sweepVars>>

\* "for line in f" is over: return builds.
ReturnBuilds ==
    /\ pc = "body"
    /\ pos = Len(file)
    /\ pc' = "main"
    /\ pid' = 0
    /\ UNCHANGED <<file, pass, pos, version, eofReads, builds, targets, stdout, stderr, sweepVars>>

(***************************************************************************)
(* main                                                                    *)
(***************************************************************************)
\* lines 301-302: assign_threads(build) for the next build of the first read
AssignThreads ==
    /\ pc = "main"
    /\ pass = 1
    /\ pid < Len(builds)
    /\ builds' = [builds EXCEPT ![pid + 1] = assign_threads(builds[pid + 1])]
    /\ pid' = pid + 1
    /\ UNCHANGED <<file, pc, pass, pos, version, eofReads, targets, stdout, stderr, sweepVars>>

\* line 306: the loop of line 301 is over and read_log opens the file again
ReadAgain ==
    /\ pc = "main"
    /\ pass = 1
    /\ pid = Len(builds)
    /\ pass' = 2
    /\ pc' = "version"
    /\ pos' = 0
    /\ version' = None
    /\ builds' = <<>>
    /\ pid' = 0
    /\ UNCHANGED <<file, eofReads, targets, stdout, stderr, sweepVars>>

\* the list comprehension with a dictionary for thread 0 of a build that has
\* no targets
dicts_of_thread0(build, p) ==
    IF build = <<>>
    THEN <<[name |-> <<>>, cat |-> "targets", ph |-> "X", ts |-> 0, dur |-> 0,
            pid |-> p, tid |-> 0]>>
    ELSE [i \in 1..Len(build) |-> target_to_dict(build[i], p)]

\* [target_to_dict(target, pid) for target in build], in the order of
\* Build.__next__
dicts_of(build, p) == [i \in 1..Len(build) |-> target_to_dict(build[i], p)]

\* lines 305-307: the next build of the second read is given its threads
\* and its targets are added to the list
ConvertBuild ==
    /\ pc = "main"
    /\ pass = 2
    /\ pid < Len(builds)
    /\ LET build == assign_threads(builds[pid + 1])
       IN  /\ builds' = [builds EXCEPT ![pid + 1] = build]
           /\ targets' = targets \o dicts_of(build, pid)
    /\ pid' = pid + 1
    /\ UNCHANGED <<file, pc, pass, pos, version, eofReads, stdout, stderr, sweepVars>>

\* line 308: print(json.dumps(targets))
PrintTargets ==
    /\ pc = "main"
    /\ pass = 2
    /\ pid = Len(builds)
    /\ stdout' = Append(stdout, targets)
    /\ pc' = "done"
    /\ UNCHANGED <<file, pass, pos, version, eofReads, builds, pid, targets, stderr, sweepVars>>

Next ==
    \/ ReadVersion
    \/ ReadVersionAtEof
    \/ ReadBody
    \/ ReturnBuilds
    \/ AssignThreads
    \/ ReadAgain
    \/ ConvertBuild
    \/ PrintTargets

Spec == Init /\ [][Next]_vars

(***************************************************************************)
(* assign_threads on its own, one target at a time.                        *)
(***************************************************************************)
SweepInit ==
    /\ file = <<>>
    /\ pc = "sweep"
    /\ pass = 1
    /\ pos = 0
    /\ version = None
    /\ eofReads = 0
    /\ \E build \in SweepBuilds :
           /\ builds = <<build>>
           /\ order = sorted_by_start(build)
    /\ pid = 0
    /\ targets = <<>>
    /\ stdout = <<>>
    /\ stderr = <<>>
    /\ threads = <<0>>
    /\ k = 1

\* one pass of "for target in targets"
SweepOne ==
    /\ pc = "sweep"
    /\ k <= Len(order)
    /\ LET st == assign_one([targets |-> builds[1], threads |-> threads], order[k])
       IN  /\ builds' = [builds EXCEPT ![1] = st.targets]
           /\ threads' = st.threads
    /\ k' = k + 1
    /\ UNCHANGED <<file, pc, pass, pos, version, eofReads, pid, targets, stdout, stderr, order>>

\* "return build"
SweepReturn ==
    /\ pc = "sweep"
    /\ k > Len(order)
    /\ pc' = "returned"
    /\ UNCHANGED <<file, pass, pos, version, eofReads, builds, pid, targets, stdout, stderr, sweepVars>>

SweepNext == SweepOne \/ SweepReturn

SweepSpec == SweepInit /\ [][SweepNext]_vars

(***************************************************************************)
(* Properties of assign_threads.                                           *)
(***************************************************************************)
\* every target of the build has 0 <= start <= end
WellFormed(build) ==
    \A i \in 1..Len(build) : 0 <= build[i].start /\ build[i].start <= build[i].end

\* two targets do not overlap: one ends no later than the other starts
Apart(a, b) == a.end <= b.start \/ b.end <= a.start

\* the threads given to the targets of a build
ThreadsUsed(build) == {build[i].thread : i \in 1..Len(build)}

\* the targets in flight at time t: start <= t < end
InFlight(build, t) ==
    {i \in 1..Len(build) : build[i].start <= t /\ t < build[i].end}

\* The largest number of targets in flight at one time. Timestamps are
\* integers and a target is in flight from its start on, so the largest
\* number is reached at the start of a target.
Peak(build) ==
    LET counts == {Cardinality(InFlight(build, build[i].start)) : i \in 1..Len(build)}
    IN  IF build = <<>> THEN 0
        ELSE CHOOSE c \in counts : \A d \in counts : d <= c

\* C1: when assign_threads has returned for a build whose targets have
\* 0 <= start <= end, two distinct targets with the same thread do not
\* overlap: one of them ends no later than the other starts.
C1_SameThreadApart ==
    (pc = "returned" /\ WellFormed(builds[1])) =>
        \A i, j \in 1..Len(builds[1]) :
            (i # j /\ builds[1][i].thread = builds[1][j].thread) =>
                Apart(builds[1][i], builds[1][j])

\* assign_threads has returned for three targets with 0 <= start <= end, two
\* of them on one thread and the third, which overlaps one of them, on another
C1_Witness ==
    /\ pc = "returned"
    /\ WellFormed(builds[1])
    /\ Len(builds[1]) = 3
    /\ \E i, j, h \in 1..3 :
           /\ i # j
           /\ builds[1][i].thread = builds[1][j].thread
           /\ builds[1][h].thread # builds[1][i].thread
           /\ ~Apart(builds[1][h], builds[1][i])

\* C2 as claimed: for a build whose targets have 0 <= start <= end, the
\* number of threads assign_threads uses is the largest number of targets
\* in flight at one time.
C2_ThreadsEqualPeak ==
    (pc = "returned" /\ WellFormed(builds[1])) =>
        Cardinality(ThreadsUsed(builds[1])) = Peak(builds[1])

\* C2 as amended: for a build whose targets have 0 <= start <= end, the
\* number of threads used is never below the largest number of targets in
\* flight at one time, and equals it when every target has start < end.
C2_ThreadsEqualPeakOfPositive ==
    (pc = "returned" /\ WellFormed(builds[1])) =>
        /\ Cardinality(ThreadsUsed(builds[1])) >= Peak(builds[1])
        /\ (\A i \in 1..Len(builds[1]) : builds[1][i].start < builds[1][i].end) =>
               Cardinality(ThreadsUsed(builds[1])) = Peak(builds[1])

\* assign_threads has returned for three targets with start < end that
\* needed two threads, one of which was used again
C2_Witness ==
    /\ pc = "returned"
    /\ Len(builds[1]) = 3
    /\ \A i \in 1..3 : 0 <= builds[1][i].start /\ builds[1][i].start < builds[1][i].end
    /\ Cardinality(ThreadsUsed(builds[1])) = 2
    /\ Peak(builds[1]) = 2

(***************************************************************************)
(* Properties of the segmentation in read_log.                             *)
(***************************************************************************)
\* the next line of the body is a record: it is neither skipped nor malformed
AtRecord ==
    /\ pc = "body"
    /\ pos < Len(file)
    /\ ~skipped(file[pos + 1])
    /\ ~parse_line(file[pos + 1]).raised

\* the record of that line, and the build it meets
Incoming == parse_line(file[pos + 1]).value
Current == builds[Len(builds)]
Latest == Current[Len(Current)]

\* the incoming record starts a new build, and the builds so far are kept
Sealed == builds' = Append(builds, <<Incoming>>)

\* the incoming record is appended to the current build
Joined == builds' = [builds EXCEPT ![Len(builds)] = Append(Current, Incoming)]

SameIdentity(a, b) == a.name = b.name /\ a.hash = b.hash

\* C3: when the current build is not empty and the incoming record has the
\* name and hash of a record of the current build, or ends strictly before
\* the record appended last, the current build is sealed and the incoming
\* record is the first of a new build.
C3_BoundaryRules ==
    [][ ( /\ AtRecord
          /\ Current # <<>>
          /\ \/ \E i \in 1..Len(Current) : SameIdentity(Current[i], Incoming)
             \/ Incoming.end < Latest.end )
        => Sealed ]_vars

\* a build was sealed by a record that repeats a name and hash of it and
\* does not end before its last record
C3_Witness ==
    /\ Len(builds) = 2
    /\ Len(builds[2]) = 1
    /\ \E i \in 1..Len(builds[1]) : SameIdentity(builds[1][i], builds[2][1])
    /\ builds[2][1].end >= builds[1][Len(builds[1])].end

\* C4 as claimed: an incoming record joins the current build whenever no
\* record of the current build has both its name and its hash and it does
\* not end before the record appended last.
C4_JoinsUnlessSameIdentity ==
    [][ ( /\ AtRecord
          /\ \A i \in 1..Len(Current) : ~SameIdentity(Current[i], Incoming)
          /\ Current # <<>> => Incoming.end >= Latest.end )
        => Joined ]_vars

\* C4 as amended: an incoming record joins the current build whenever no
\* record of the current build has its name and it does not end before the
\* record appended last; a record with a name of the current build starts a
\* new build whatever its hash is.
C4_JoinsUnlessSameName ==
    [][ /\ ( /\ AtRecord
             /\ \A i \in 1..Len(Current) : Current[i].name # Incoming.name
             /\ Current # <<>> => Incoming.end >= Latest.end )
           => Joined
        /\ ( /\ AtRecord
             /\ \E i \in 1..Len(Current) : Current[i].name = Incoming.name )
           => Sealed ]_vars

\* a record joined a build, and the build was then sealed by a record with a
\* name of it, another hash, and an end not before that of its last record
C4_Witness ==
    /\ Len(builds) = 2
    /\ Len(builds[1]) = 2
    /\ \E i \in 1..2 :
           /\ builds[1][i].name = builds[2][1].name
           /\ builds[1][i].hash # builds[2][1].hash
    /\ \A i \in 1..2 : ~SameIdentity(builds[1][i], builds[2][1])
    /\ builds[2][1].end >= builds[1][2].end

\* C5: no build holds two records with the same name and hash.
C5_NoDuplicateInBuild ==
    \A b \in 1..Len(builds) :
        \A i, j \in 1..Len(builds[b]) :
            i # j => ~SameIdentity(builds[b][i], builds[b][j])

\* the log has been read into two builds, the second of which begins with a
\* record of the name and hash of a record of the first
C5_Witness ==
    /\ pc = "main"
    /\ Len(builds) = 2
    /\ \E i \in 1..Len(builds[1]) : SameIdentity(builds[1][i], builds[2][1])

(***************************************************************************)
(* Properties of the version search and of the lines of the body.          *)
(***************************************************************************)
\* the first line of the file that the header pattern matches, 0 if none
FirstHeader ==
    LET found == {i \in 1..Len(file) : ninja_log_expr(file[i]) # <<>>}
    IN  IF found = {} THEN 0 ELSE CHOOSE i \in found : \A j \in found : i <= j

\* the records written in the body of the file, in file order
RECURSIVE RecordsOf(_)
RecordsOf(lines) ==
    IF lines = <<>> THEN <<>>
    ELSE IF skipped(Head(lines)) THEN RecordsOf(Tail(lines))
    ELSE <<parse_line(Head(lines)).value>> \o RecordsOf(Tail(lines))

LogRecords == RecordsOf(SubSeq(file, FirstHeader + 1, Len(file)))

\* the targets of all builds
AllTargets == UNION {{builds[b][i] : i \in 1..Len(builds[b])} : b \in 1..Len(builds)}

\* C6 as claimed: the search for the version stops when the input is
\* depleted: once readline() has returned '' the loop is left.
C6_VersionSearchStops == eofReads > 0 => pc # "version"

\* C7 as claimed: when the header line is "# ninja log v<n>" with n other
\* than 5, no record of the body is ever read, read_log does not return,
\* and nothing is printed.
C7_VersionGate ==
    \A n \in 0..99 :
        (n # 5 /\ FirstHeader # 0 /\ file[FirstHeader] = HeaderLine(n)) =>
            /\ AllTargets = {}
            /\ pc \notin {"main", "done"}
            /\ stdout = <<>>

\* C8 as claimed: a line of the body that is blank or begins with '#' is
\* skipped: the program goes on reading, the builds are as they were, and
\* nothing is printed.
C8_BlankAndCommentSkipped ==
    [][ ( /\ pc = "body"
          /\ pos < Len(file)
          /\ file[pos + 1] = BlankLine \/ file[pos + 1][1] = "#" )
        => (pc' = "body" /\ builds' = builds /\ stderr' = stderr /\ stdout' = stdout) ]_vars

(***************************************************************************)
(* Properties of the list printed.                                         *)
(***************************************************************************)
\* the number of targets in the builds before build b
RECURSIVE Before(_)
Before(b) == IF b = 1 THEN 0 ELSE Before(b - 1) + Len(builds[b - 1])

\* a build as read_log returns it: no target has a thread
Unassigned(build) == [i \in 1..Len(build) |-> [build[i] EXCEPT !.thread = None]]

\* C9: the list printed has one dictionary for each record of the body, in
\* file order; the dictionary of a record has ts = start * 1000,
\* dur = (end - start) * 1000, pid = the zero-based index of the build the
\* record was put in, and tid = the thread assign_threads gave it in that
\* build.
C9_OneEventPerRecord ==
    pc = "done" =>
        /\ Len(stdout) = 1
        /\ Len(stdout[1]) = Len(LogRecords)
        /\ \A n \in 1..Len(LogRecords) :
               \E b \in 1..Len(builds) : \E j \in 1..Len(builds[b]) :
                   /\ n = Before(b) + j
                   /\ Unassigned(builds[b])[j] = LogRecords[n]
                   /\ stdout[1][n].name = LogRecords[n].name
                   /\ stdout[1][n].ts = LogRecords[n].start * 1000
                   /\ stdout[1][n].dur = (LogRecords[n].end - LogRecords[n].start) * 1000
                   /\ stdout[1][n].pid = b - 1
                   /\ stdout[1][n].tid = assign_threads(Unassigned(builds[b]))[j].thread
                   /\ stdout[1][n].tid >= 0

\* a list of three dictionaries was printed, of two builds, with a second
\* thread in one of them and a target that runs for some time
C9_Witness ==
    /\ pc = "done"
    /\ Len(stdout[1]) = 3
    /\ Len(builds) = 2
    /\ \E n \in 1..3 : stdout[1][n].tid = 1
    /\ \E n \in 1..3 : stdout[1][n].dur > 0

\* the body holds three records, 0..10, 2..8 and 20..25, the third with a
\* name of its own
RoundTripLog ==
    /\ Len(LogRecords) = 3
    /\ <<LogRecords[1].start, LogRecords[1].end>> = <<0, 10>>
    /\ <<LogRecords[2].start, LogRecords[2].end>> = <<2, 8>>
    /\ <<LogRecords[3].start, LogRecords[3].end>> = <<20, 25>>
    /\ LogRecords[3].name \notin {LogRecords[1].name, LogRecords[2].name}

\* every ts and dur printed is the value of the log times 1000
Scaled ==
    \A n \in 1..Len(LogRecords) :
        /\ stdout[1][n].ts = LogRecords[n].start * 1000
        /\ stdout[1][n].dur = (LogRecords[n].end - LogRecords[n].start) * 1000

\* C10 as claimed: for that log three dictionaries are printed; the first
\* two have pid 0 and tid 0 and 1, the third has pid 1 and tid 0, and all
\* ts and dur are the values of the log times 1000.
C10_RoundTripAsClaimed ==
    (pc = "done" /\ RoundTripLog) =>
        /\ Len(stdout[1]) = 3
        /\ <<stdout[1][1].pid, stdout[1][1].tid>> = <<0, 0>>
        /\ <<stdout[1][2].pid, stdout[1][2].tid>> = <<0, 1>>
        /\ <<stdout[1][3].pid, stdout[1][3].tid>> = <<1, 0>>
        /\ Scaled

\* C10 as amended: for that log three dictionaries are printed; the first
\* has pid 0 and tid 0, the second and the third have pid 1 and tid 0 (the
\* second ends at 8, before the 10 of the first, and starts the second
\* build; the third ends at 25 and joins it), and all ts and dur are the
\* values of the log times 1000.
C10_RoundTrip ==
    (pc = "done" /\ RoundTripLog) =>
        /\ Len(stdout[1]) = 3
        /\ <<stdout[1][1].pid, stdout[1][1].tid>> = <<0, 0>>
        /\ <<stdout[1][2].pid, stdout[1][2].tid>> = <<1, 0>>
        /\ <<stdout[1][3].pid, stdout[1][3].tid>> = <<1, 0>>
        /\ Scaled

\* the round-trip log has been read and its list printed
C10_Witness == pc = "done" /\ RoundTripLog /\ Len(stdout) = 1

(***************************************************************************)
(* Properties of the lines of the body, continued.                         *)
(***************************************************************************)
\* the first header of the file is that of version 5 and no line after it
\* is a record: each of them is skipped
EmptyBodyLog ==
    /\ FirstHeader # 0
    /\ file[FirstHeader] = HeaderLine(5)
    /\ \A i \in (FirstHeader + 1)..Len(file) : skipped(file[i])

\* C11: for a log with the header of version 5 and no record in its body,
\* the program raises nothing, and what it prints is one empty list.
C11_EmptyBodyEmptyList ==
    EmptyBodyLog =>
        /\ pc \notin {"exit", "ValueError"}
        /\ stdout = IF pc = "done" THEN <<<<>>>> ELSE <<>>

\* such a log has been read twice, its one build is empty, and the empty
\* list has been printed
C11_Witness ==
    /\ EmptyBodyLog
    /\ pc = "done"
    /\ builds = <<<<>>>>
    /\ stdout = <<<<>>>>

\* C12 as claimed: no record with a negative start or end is ever added to
\* a build.
C12_NoNegativeTimestamp ==
    \A t \in AllTargets : t.start >= 0 /\ t.end >= 0

(***************************************************************************)
(* Properties of assign_threads, continued.                                *)
(***************************************************************************)
\* order holds every target of the build once, by ascending start, and
\* targets with the same start in arrival order
OrderedByStart ==
    /\ Len(order) = Len(builds[1])
    /\ {order[r] : r \in 1..Len(order)} = 1..Len(builds[1])
    /\ \A r, q \in 1..Len(order) :
           r < q =>
               \/ builds[1][order[r]].start < builds[1][order[q]].start
               \/ /\ builds[1][order[r]].start = builds[1][order[q]].start
                  /\ order[r] < order[q]

\* the threads whose end time is <= the start of target i
FreeFor(i) == {t \in 1..Len(threads) : threads[t] <= builds[1][i].start}

\* C13: assign_threads goes through the targets by ascending start, equal
\* starts in arrival order; the target of a step gets the lowest thread
\* whose end time is <= its start, and that thread's end time becomes the
\* target's end; when there is no such thread it gets a new thread, whose
\* index is the number of threads so far. No other target changes.
C13_LowestFreeThread ==
    [][ (pc = "sweep" /\ k <= Len(order)) =>
          LET i == order[k]
              first == CHOOSE t \in FreeFor(i) : \A u \in FreeFor(i) : t <= u
          IN  /\ OrderedByStart
              /\ \A j \in 1..Len(builds[1]) : j # i => builds'[1][j] = builds[1][j]
              /\ IF FreeFor(i) # {}
                 THEN /\ builds'[1][i].thread = first - 1
                      /\ threads' = [threads EXCEPT ![first] = builds[1][i].end]
                 ELSE /\ builds'[1][i].thread = Len(threads)
                      /\ threads' = Append(threads, builds[1][i].end) ]_vars

\* assign_threads has returned for three targets: two with the same start on
\* threads 0 and 1 in arrival order, and a third that starts as the first of
\* them ends, when both threads are free, on thread 0
C13_Witness ==
    /\ pc = "returned"
    /\ Len(builds[1]) = 3
    /\ \E i, j, h \in 1..3 :
           /\ i < j
           /\ builds[1][i].start = builds[1][j].start
           /\ builds[1][i].start < builds[1][i].end
           /\ builds[1][i].thread = 0
           /\ builds[1][j].thread = 1
           /\ builds[1][h].start = builds[1][i].end
           /\ builds[1][j].end <= builds[1][h].start
           /\ builds[1][h].thread = 0

(***************************************************************************)
(* Properties of the segmentation in read_log, continued.                  *)
(***************************************************************************)
\* the targets of the builds, one build after the other
RECURSIVE Flatten(_)
Flatten(bs) == IF bs = <<>> THEN <<>> ELSE Head(bs) \o Flatten(Tail(bs))

\* the builds as read_log makes them: no target has a thread
BuildsRead == [b \in 1..Len(builds) |-> Unassigned(builds[b])]

\* the records of the lines of the body read so far
RecordsRead == RecordsOf(SubSeq(file, FirstHeader + 1, pos))

\* C14: the builds of read_log, one after the other, are the records of the
\* body in file order: while the body is read they are the records read so
\* far, and when read_log has returned they are all records of the body.
C14_BuildsPartitionRecords ==
    /\ pc = "body" => Flatten(BuildsRead) = RecordsRead
    /\ pc \in {"main", "done"} => Flatten(BuildsRead) = LogRecords

\* read_log has returned three records in two builds
C14_Witness ==
    /\ pc = "main"
    /\ Len(LogRecords) = 3
    /\ Len(builds) = 2
    /\ Len(builds[1]) + Len(builds[2]) = 3

\* C16: in every build, at every point of the read, each record ends no
\* earlier than the record appended just before it.
C16_EndsNonDecreasing ==
    \A b \in 1..Len(builds) :
        \A i \in 1..(Len(builds[b]) - 1) :
            builds[b][i].end <= builds[b][i + 1].end

\* a build of two records, the second ending later than the first, was
\* sealed by a record that ends before its last record
C16_Witness ==
    /\ Len(builds) = 2
    /\ Len(builds[1]) = 2
    /\ builds[1][1].end < builds[1][2].end
    /\ builds[2][1].end < builds[1][2].end

\* C17: read_log has at least one build from the header on; every build but
\* the first holds a record; the first is empty only while no record of the
\* body has been read; and a record that meets an empty build joins it.
C17_OnlyFirstBuildEmpty ==
    /\ [](pc \in {"body", "main", "done", "ValueError"} =>
            /\ Len(builds) >= 1
            /\ \A b \in 2..Len(builds) : builds[b] # <<>>)
    /\ [](pc \in {"body", "main", "done"} =>
            (builds[1] = <<>> => RecordsRead = <<>>))
    /\ [][(AtRecord /\ Current = <<>>) => Joined]_vars

\* read_log has returned two builds for a body of records, none of them empty
C17_Witness ==
    /\ pc = "main"
    /\ pass = 1
    /\ pid = 0
    /\ Len(builds) = 2
    /\ builds[1] # <<>>
    /\ builds[2] # <<>>

(***************************************************************************)
(* assign_threads called again on the build it returned.                   *)
(***************************************************************************)
\* a second assign_threads(build): the targets keep their threads, they are
\* sorted again, and threads is [0] again
SweepAgain ==
    /\ pc = "returned"
    /\ pc' = "again"
    /\ order' = sorted_by_start(builds[1])
    /\ threads' = <<0>>
    /\ k' = 1
    /\ UNCHANGED <<file, pass, pos, version, eofReads, builds, pid, targets, stdout, stderr>>

\* one pass of "for target in targets" of the second call
SweepOneAgain ==
    /\ pc = "again"
    /\ k <= Len(order)
    /\ LET st == assign_one([targets |-> builds[1], threads |-> threads], order[k])
       IN  /\ builds' = [builds EXCEPT ![1] = st.targets]
           /\ threads' = st.threads
    /\ k' = k + 1
    /\ UNCHANGED <<file, pc, pass, pos, version, eofReads, pid, targets, stdout, stderr, order>>

\* "return build" of the second call
SweepReturnAgain ==
    /\ pc = "again"
    /\ k > Len(order)
    /\ pc' = "returned again"
    /\ UNCHANGED <<file, pass, pos, version, eofReads, builds, pid, targets, stdout, stderr, sweepVars>>

SweepTwiceNext ==
    \/ SweepOne
    \/ SweepReturn
    \/ SweepAgain
    \/ SweepOneAgain
    \/ SweepReturnAgain

SweepTwiceSpec == SweepInit /\ [][SweepTwiceNext]_vars

(***************************************************************************)
(* Properties of the threads of the targets.                               *)
(***************************************************************************)
\* C15: in one call of assign_threads on targets that have no thread, the
\* target of each step has no thread before the step and a thread >= 0
\* after it; a thread once set is not changed by a later step; and when the
\* call returns every target has a thread.
C15_ThreadSetOnce ==
    /\ []((pc = "sweep" /\ k = 1) =>
            \A i \in 1..Len(builds[1]) : builds[1][i].thread = None)
    /\ [][ /\ (pc = "sweep" /\ k <= Len(order)) =>
                /\ builds[1][order[k]].thread = None
                /\ builds'[1][order[k]].thread >= 0
           /\ (\A i \in 1..Len(builds[1]) :
                   builds[1][i].thread # None =>
                       builds'[1][i].thread = builds[1][i].thread) ]_vars
    /\ [](pc = "returned" =>
            \A i \in 1..Len(builds[1]) : builds[1][i].thread >= 0)

\* assign_threads has returned for three targets of which the last two
\* found no free thread
C15_Witness ==
    /\ pc = "returned"
    /\ Len(builds[1]) = 3
    /\ ThreadsUsed(builds[1]) = {0, 1, 2}
    /\ Len(threads) = 3

\* C18: for a build that is not empty and whose targets have
\* 0 <= start <= end, the threads assign_threads uses are 0, ..., n - 1 for
\* some n >= 1.
C18_ThreadsContiguous ==
    (pc = "returned" /\ builds[1] # <<>> /\ WellFormed(builds[1])) =>
        /\ 0 \in ThreadsUsed(builds[1])
        /\ ThreadsUsed(builds[1]) = 0..(Cardinality(ThreadsUsed(builds[1])) - 1)

\* assign_threads has returned for three targets with 0 <= start <= end
\* that are on threads 0 and 1, thread 0 used twice
C18_Witness ==
    /\ pc = "returned"
    /\ WellFormed(builds[1])
    /\ Len(builds[1]) = 3
    /\ ThreadsUsed(builds[1]) = {0, 1}
    /\ Cardinality({i \in 1..3 : builds[1][i].thread = 0}) = 2

\* C19: from the return of the first call on, through all of a second call
\* of assign_threads on the same build, no thread of a target changes.
C19_SecondCallKeepsThreads ==
    [][ (pc = "returned" \/ pc = "again") =>
          (\A i \in 1..Len(builds[1]) :
               builds'[1][i].thread = builds[1][i].thread) ]_vars

\* the second call has returned for three targets, one of them on a thread
\* that the second call never had, and thread 0 was given twice
C19_Witness ==
    /\ pc = "returned again"
    /\ Len(builds[1]) = 3
    /\ Len(threads) = 1
    /\ ThreadsUsed(builds[1]) = {0, 1}
    /\ Cardinality({i \in 1..3 : builds[1][i].thread = 0}) = 2

=============================================================================
